---- MODULE Spec2Model ----
(***************************************************************************)
(* Model of src/multicloud_pipeline/connectors/azure_connectors.py.        *)
(*                                                                         *)
(* The connectors translate constructor arguments into session             *)
(* configuration keys, URLs and option maps, and forward them to the       *)
(* engine.  The engine is external: the model records the request it is    *)
(* handed and nothing of what it does with it.                             *)
(*                                                                         *)
(* Representation of Python values:                                        *)
(*   str            a TLA+ string                                          *)
(*   f-string       the sequence of its parts: each interpolated value,    *)
(*                  and its literal text cut at the host name              *)
(*   Optional[str]  a string, or PyNone                                    *)
(*   dict           a function from keys to values                         *)
(*   Optional[dict] NoneOpt or SomeOpt(d); Optional[list] likewise         *)
(*   exception      the name of its class (NoExc when none is raised)      *)
(*                                                                         *)
(* Lines 77-131 of the file (_find_index_for_key, goal_theta) are a        *)
(* fragment unrelated to the connectors and are not modelled; read and     *)
(* write at lines 134-191 are taken as methods of AzureBlobConnector.      *)
(***************************************************************************)
EXTENDS Integers, Sequences, FiniteSets, TLC

VARIABLES spark_conf, connectors, last

vars == <<spark_conf, connectors, last>>

\* Bound of the model: how many connectors are constructed on the session.
MaxConnectors == 1

-----------------------------------------------------------------------------
\* Python values

PyNone == "<None>"

NoneOpt == [tag |-> "None"]

SomeOpt(v) == [tag |-> "Some", val |-> v]

EmptyDict == [k \in {} |-> ""]

NoExc == ""

\* what the engine is handed when a call raises before reaching it
NoRequest == [api |-> "none"]

\* a constructor returning normally: the connector, the session configuration
\* after the call and the keys the call set in it
CtorOk(self, conf, keys) ==
    [exc |-> NoExc, msg |-> "", self |-> self, conf |-> conf, keys |-> keys]

\* a constructor raising
CtorRaised(exc, msg, conf) ==
    [exc |-> exc, msg |-> msg, conf |-> conf, keys |-> {}]

\* a method returning normally: the request handed to the engine, and the
\* connector, the session configuration and the caller's options map as the
\* call leaves them
Ok(request, self, conf, options) ==
    [exc |-> NoExc, msg |-> "", request |-> request, self |-> self,
     conf |-> conf, options |-> options]

\* a method raising
Raised(exc, msg, self, conf, options) ==
    [exc |-> exc, msg |-> msg, request |-> NoRequest, self |-> self,
     conf |-> conf, options |-> options]

\* bool(s) of an Optional[str]: None and "" are falsy
TruthyStr(s) == s # PyNone /\ s # ""

\* bool(d) of an Optional[dict] or Optional[list]: None, {} and [] are falsy
Truthy(o) == o.tag = "Some" /\ DOMAIN o.val # {}

\* `config or {}`
OrEmptyDict(o) == IF Truthy(o) THEN o.val ELSE EmptyDict

\* d.get(k, default)
DictGet(d, k, default) == IF k \in DOMAIN d THEN d[k] ELSE default

\* d[k] = v
DictSet(d, k, v) == [x \in DOMAIN d \cup {k} |-> IF x = k THEN v ELSE d[x]]

\* d.update(e)
DictUpdate(d, e) ==
    [x \in DOMAIN d \cup DOMAIN e |-> IF x \in DOMAIN e THEN e[x] ELSE d[x]]

\* `if options: for key, value in options.items(): x = x.option(key, value)`
\* applied to the option map a reader or writer has accumulated
ApplyOptions(opts, options) ==
    IF Truthy(options) THEN DictUpdate(opts, options.val) ELSE opts

\* whether the part `s` is one of the parts of the f-string `fs`
HasPart(fs, s) == \E i \in 1..Len(fs) : fs[i] = s

-----------------------------------------------------------------------------
\* AzureConnector

\* AzureConnector.__init__
AzureConnector_init(cls, account_name, config) ==
    [cls |-> cls, account_name |-> account_name, config |-> OrEmptyDict(config)]

\* AzureConnector._configure_auth: the session configuration after the call,
\* the keys it set, and the exception it raised
configure_auth(self, conf, auth_type) ==
    IF auth_type = "account_key" /\ "account_key" \in DOMAIN self.config
    THEN LET key == <<"fs.azure.account.key.", self.account_name, ".",
                      "dfs.core.windows.net">>
         IN CtorOk(self, DictSet(conf, key, self.config["account_key"]), {key})
    ELSE IF auth_type = "sas_token" /\ "sas_token" \in DOMAIN self.config
    THEN IF "container" \notin DOMAIN self.config
         THEN CtorRaised("KeyError", "'container'", conf)
         ELSE LET key == <<"fs.azure.sas.", self.config["container"], ".",
                           self.account_name, ".", "blob.core.windows.net">>
              IN CtorOk(self, DictSet(conf, key, self.config["sas_token"]), {key})
    ELSE IF auth_type = "managed_identity"
    THEN LET k1 == <<"fs.azure.account.auth.type">>
             k2 == <<"fs.azure.account.oauth.provider.type">>
         IN CtorOk(self,
                   DictSet(DictSet(conf, k1, "OAuth"), k2,
                       "org.apache.hadoop.fs.azurebfs.oauth2.MsiTokenProvider"),
                   {k1, k2})
    ELSE CtorOk(self, conf, {})

\* `config.get("auth_type", "account_key") if config else "account_key"`
auth_type_of(config) ==
    IF Truthy(config) THEN DictGet(config.val, "auth_type", "account_key")
    ELSE "account_key"

\* AzureBlobConnector.__init__
AzureBlobConnector_init(conf, account_name, container, config) ==
    LET base == AzureConnector_init("AzureBlobConnector", account_name, config)
        self == [cls |-> base.cls, account_name |-> base.account_name,
                 config |-> base.config, container |-> container]
    IN configure_auth(self, conf, auth_type_of(config))

\* AzureDataLakeGen2Connector.__init__
AzureDataLakeGen2Connector_init(conf, account_name, container, config) ==
    LET base == AzureConnector_init("AzureDataLakeGen2Connector", account_name, config)
        self == [cls |-> base.cls, account_name |-> base.account_name,
                 config |-> base.config, container |-> container]
    IN configure_auth(self, conf, auth_type_of(config))

\* AzureBlobConnector.read
AzureBlobConnector_read(self, conf, path, format, options) ==
    LET full_path == <<"wasbs://", self.container, "@", self.account_name,
                       ".", "blob.core.windows.net", "/", path>>
        reader == [api |-> "read.load", format |-> format,
                   options |-> ApplyOptions(EmptyDict, options),
                   path |-> full_path]
    IN Ok(reader, self, conf, options)

\* AzureBlobConnector.write addressing the Data Lake endpoint instead
AzureBlobConnector_write_dfs(self, conf, path, format, mode, options) ==
    LET full_path == <<"abfss://", self.container, "@", self.account_name,
                       ".", "dfs.core.windows.net", "/", path>>
        writer == [api |-> "write.save", format |-> format, mode |-> mode,
                   partitionBy |-> <<>>,
                   options |-> ApplyOptions(EmptyDict, options),
                   path |-> full_path]
    IN Ok(writer, self, conf, options)

\* AzureBlobConnector.write
AzureBlobConnector_write(self, conf, path, format, mode, options) ==
    LET full_path == <<"wasbs://", self.container, "@", self.account_name,
                       ".", "blob.core.windows.net", "/", path>>
        writer == [api |-> "write.save", format |-> format, mode |-> mode,
                   partitionBy |-> <<>>,
                   options |-> ApplyOptions(EmptyDict, options),
                   path |-> full_path]
    IN Ok(writer, self, conf, options)

\* AzureDataLakeGen2Connector.read
AzureDataLakeGen2Connector_read(self, conf, path, format, options) ==
    LET full_path == <<"abfss://", self.container, "@", self.account_name,
                       ".", "dfs.core.windows.net", "/", path>>
        reader == [api |-> "read.load", format |-> format,
                   options |-> ApplyOptions(EmptyDict, options),
                   path |-> full_path]
    IN Ok(reader, self, conf, options)

\* AzureDataLakeGen2Connector.write; `if partition_by:` skips None and []
AzureDataLakeGen2Connector_write(self, conf, path, format, mode, partition_by, options) ==
    LET full_path == <<"abfss://", self.container, "@", self.account_name,
                       ".", "dfs.core.windows.net", "/", path>>
        writer == [api |-> "write.save", format |-> format, mode |-> mode,
                   partitionBy |-> IF Truthy(partition_by) THEN partition_by.val
                                   ELSE <<>>,
                   options |-> ApplyOptions(EmptyDict, options),
                   path |-> full_path]
    IN Ok(writer, self, conf, options)

-----------------------------------------------------------------------------
\* AzureSynapseConnector and AzureSQLConnector

SQLServerDriver == "com.microsoft.sqlserver.jdbc.SQLServerDriver"

\* the dict literal assigned to connection_properties; `config` is the
\* constructor's parameter, not self.config
connection_properties_of(config) ==
    [user |-> DictGet(config.val, "user", ""),
     password |-> DictGet(config.val, "password", ""),
     driver |-> SQLServerDriver]

\* AzureSynapseConnector.__init__; config.get on None raises AttributeError
AzureSynapseConnector_init(conf, server, database, config) ==
    IF config.tag = "None"
    THEN CtorRaised("AttributeError",
                    "'NoneType' object has no attribute 'get'", conf)
    ELSE CtorOk([cls |-> "AzureSynapseConnector", server |-> server,
                 database |-> database, config |-> OrEmptyDict(config),
                 jdbc_url |-> <<"jdbc:sqlserver://", server, ":1433;database=",
                                database>>,
                 connection_properties |-> connection_properties_of(config)],
                conf, {})

\* AzureSQLConnector.__init__; config.get on None raises AttributeError
AzureSQLConnector_init(conf, server, database, config) ==
    IF config.tag = "None"
    THEN CtorRaised("AttributeError",
                    "'NoneType' object has no attribute 'get'", conf)
    ELSE CtorOk([cls |-> "AzureSQLConnector", server |-> server,
                 database |-> database, config |-> OrEmptyDict(config),
                 jdbc_url |-> <<"jdbc:sqlserver://", server, ":1433;database=",
                                database,
                                ";encrypt=true;trustServerCertificate=false;hostNameInCertificate=*.database.windows.net;loginTimeout=30">>,
                 connection_properties |-> connection_properties_of(config)],
                conf, {})

\* the reader both read methods build once the arguments are accepted: url,
\* the connection properties, dbtable or query, then the caller's options
jdbc_reader(self, table, query, options) ==
    LET o1 == DictSet(EmptyDict, "url", self.jdbc_url)
        o2 == DictUpdate(o1, self.connection_properties)
        o3 == IF TruthyStr(table) THEN DictSet(o2, "dbtable", table)
              ELSE DictSet(o2, "query", query)
    IN [api |-> "read.load", format |-> "jdbc",
        options |-> ApplyOptions(o3, options)]

\* the writer both write methods build: url, dbtable, mode, the connection
\* properties, then the caller's options
jdbc_writer(self, table, mode, options) ==
    LET o1 == DictSet(EmptyDict, "url", self.jdbc_url)
        o2 == DictSet(o1, "dbtable", table)
        o3 == DictUpdate(o2, self.connection_properties)
    IN [api |-> "write.save", format |-> "jdbc", mode |-> mode,
        options |-> ApplyOptions(o3, options)]

\* AzureSynapseConnector.read without the test for table and query together
AzureSynapseConnector_read_table_wins(self, conf, table, query, options) ==
    IF ~TruthyStr(table) /\ ~TruthyStr(query)
    THEN Raised("ValueError", "Provide either table or query",
                self, conf, options)
    ELSE Ok(jdbc_reader(self, table, query, options), self, conf, options)

\* AzureSynapseConnector.read
AzureSynapseConnector_read(self, conf, table, query, options) ==
    IF TruthyStr(table) /\ TruthyStr(query)
    THEN Raised("ValueError", "Provide either table or query, not both",
                self, conf, options)
    ELSE IF ~TruthyStr(table) /\ ~TruthyStr(query)
    THEN Raised("ValueError", "Provide either table or query",
                self, conf, options)
    ELSE Ok(jdbc_reader(self, table, query, options), self, conf, options)

\* AzureSynapseConnector.write
AzureSynapseConnector_write(self, conf, table, mode, options) ==
    Ok(jdbc_writer(self, table, mode, options), self, conf, options)

\* AzureSQLConnector.read keeping the caller's options in
\* self.connection_properties
AzureSQLConnector_read_keeps_options(self, conf, table, query, options) ==
    IF TruthyStr(table) /\ TruthyStr(query)
    THEN Raised("ValueError", "Provide either table or query, not both",
                self, conf, options)
    ELSE LET kept == [self EXCEPT !.connection_properties =
                                      ApplyOptions(@, options)]
         IN Ok(jdbc_reader(kept, table, query, NoneOpt), kept, conf, options)

\* AzureSQLConnector.read
AzureSQLConnector_read(self, conf, table, query, options) ==
    IF TruthyStr(table) /\ TruthyStr(query)
    THEN Raised("ValueError", "Provide either table or query, not both",
                self, conf, options)
    ELSE Ok(jdbc_reader(self, table, query, options), self, conf, options)

\* AzureSQLConnector.write
AzureSQLConnector_write(self, conf, table, mode, options) ==
    Ok(jdbc_writer(self, table, mode, options), self, conf, options)

-----------------------------------------------------------------------------
\* AzureEventHubConnector

\* AzureEventHubConnector.__init__; `"connection_string" in config` tests the
\* parameter, and raises TypeError when it is None
AzureEventHubConnector_init(conf, namespace, eventhub_name, config) ==
    IF config.tag = "None"
    THEN CtorRaised("TypeError",
                    "argument of type 'NoneType' is not iterable", conf)
    ELSE IF "connection_string" \in DOMAIN config.val
    THEN CtorOk([cls |-> "AzureEventHubConnector", namespace |-> namespace,
                 eventhub_name |-> eventhub_name,
                 config |-> OrEmptyDict(config),
                 connection_string |-> config.val["connection_string"]],
                conf, {})
    ELSE CtorRaised("ValueError", "connection_string is required in config",
                    conf)

\* AzureEventHubConnector.read_stream sending the namespace as the
\* connection string
AzureEventHubConnector_read_stream_namespace(self, conf, starting_position, options) ==
    LET eh_conf ==
            DictSet(DictSet(EmptyDict, "eventhubs.connectionString",
                            self.namespace),
                    "eventhubs.startingPosition",
                    <<"{\"offset\": \"", starting_position, "\"}">>)
    IN Ok([api |-> "readStream.load", format |-> "eventhubs",
           options |-> ApplyOptions(eh_conf, options)],
          self, conf, options)

\* AzureEventHubConnector.read_stream; eh_conf is a new dict, updated with
\* the caller's options
AzureEventHubConnector_read_stream(self, conf, starting_position, options) ==
    LET eh_conf ==
            DictSet(DictSet(EmptyDict, "eventhubs.connectionString",
                            self.connection_string),
                    "eventhubs.startingPosition",
                    <<"{\"offset\": \"", starting_position, "\"}">>)
    IN Ok([api |-> "readStream.load", format |-> "eventhubs",
           options |-> ApplyOptions(eh_conf, options)],
          self, conf, options)

\* AzureEventHubConnector.write_stream; it takes no options map
AzureEventHubConnector_write_stream(self, conf, checkpoint_location, output_mode, trigger) ==
    LET eh_conf == DictSet(EmptyDict, "eventhubs.connectionString",
                           self.connection_string)
    IN Ok([api |-> "writeStream.start", format |-> "eventhubs",
           outputMode |-> output_mode,
           options |-> DictSet(eh_conf, "checkpointLocation",
                               checkpoint_location),
           trigger |-> [processingTime |-> trigger]],
          self, conf, NoneOpt)

\* the declared defaults of the parameters
default_format == "parquet"

default_mode == "overwrite"

default_starting_position == "earliest"

default_output_mode == "append"

default_trigger == "processingTime='10 seconds'"

-----------------------------------------------------------------------------
\* The arguments the callers are given to choose from

AccountNames == {"acctA", "acctB"}

Containers == {"c1", "c2"}

StorageConfigs ==
    {NoneOpt, SomeOpt(EmptyDict),
     SomeOpt([account_key |-> "k1"]),
     SomeOpt([auth_type |-> "sas_token", sas_token |-> "s1"]),
     SomeOpt([auth_type |-> "managed_identity"])}
    \cup {SomeOpt([auth_type |-> "sas_token", sas_token |-> "s1",
                   container |-> c]) : c \in {"c2"}}

JdbcConfigs ==
    {NoneOpt, SomeOpt(EmptyDict), SomeOpt([user |-> "admin", password |-> "pw"])}

EventHubConfigs ==
    {NoneOpt, SomeOpt(EmptyDict), SomeOpt([user |-> "admin"]),
     SomeOpt([connection_string |-> "Endpoint=sb://ns1"]),
     SomeOpt([connection_string |-> "Endpoint=sb://ns2"])}

Paths == {"in/sales.parquet"}

Formats == {default_format, "csv"}

Modes == {default_mode, "append"}

PartitionBys == {NoneOpt, SomeOpt(<<"day">>)}

StorageOptions == {NoneOpt, SomeOpt(EmptyDict), SomeOpt([header |-> "true"])}

Tables == {PyNone, "", "fact_sales"}

Queries == {PyNone, "", "select 1"}

JdbcOptions ==
    {NoneOpt, SomeOpt([fetchsize |-> "10"]), SomeOpt([dbtable |-> "other"]),
     SomeOpt([query |-> "select 2"])}

StartingPositions == {default_starting_position, "latest"}

EventHubOptions ==
    {NoneOpt, SomeOpt([maxEventsPerTrigger |-> "5"]),
     SomeOpt([x \in {"eventhubs.connectionString"} |-> "Endpoint=sb://other"])}

OutputModes == {default_output_mode, "complete"}

Triggers == {default_trigger, "5 seconds"}

CheckpointLocations == {"/chk/a"}

-----------------------------------------------------------------------------
\* The session and the connectors constructed on it

\* a new session: nothing configured, no connector, no call made
Init ==
    /\ spark_conf = EmptyDict
    /\ connectors = <<>>
    /\ last = [op |-> "none", kind |-> "none", idx |-> 0, args |-> EmptyDict,
               exc |-> NoExc, msg |-> "", request |-> NoRequest,
               options |-> NoneOpt, options_after |-> NoneOpt, keys |-> {}]

\* a constructor call and its outcome `r`: the connector exists only when the
\* constructor returns; what it set in the session stays set
Constructed(op, args, r) ==
    /\ spark_conf' = r.conf
    /\ connectors' = IF r.exc = NoExc THEN Append(connectors, r.self)
                     ELSE connectors
    /\ last' = [op |-> op, kind |-> "construct",
                idx |-> IF r.exc = NoExc THEN Len(connectors) + 1 ELSE 0,
                args |-> args, exc |-> r.exc, msg |-> r.msg,
                request |-> NoRequest, options |-> NoneOpt,
                options_after |-> NoneOpt, keys |-> r.keys]

\* a method call on connector `i` and its outcome `r`
Called(op, i, args, options, r) ==
    /\ spark_conf' = r.conf
    /\ connectors' = [connectors EXCEPT ![i] = r.self]
    /\ last' = [op |-> op, kind |-> "call", idx |-> i, args |-> args,
                exc |-> r.exc, msg |-> r.msg, request |-> r.request,
                options |-> options, options_after |-> r.options, keys |-> {}]

Instances(cls) == {i \in 1..Len(connectors) : connectors[i].cls = cls}

ConstructBlob ==
    /\ Len(connectors) < MaxConnectors
    /\ \E a \in AccountNames, c \in Containers, cfg \in StorageConfigs :
         Constructed("AzureBlobConnector.__init__",
                     [account_name |-> a, container |-> c, config |-> cfg],
                     AzureBlobConnector_init(spark_conf, a, c, cfg))

ConstructDataLake ==
    /\ Len(connectors) < MaxConnectors
    /\ \E a \in AccountNames, c \in Containers, cfg \in StorageConfigs :
         Constructed("AzureDataLakeGen2Connector.__init__",
                     [account_name |-> a, container |-> c, config |-> cfg],
                     AzureDataLakeGen2Connector_init(spark_conf, a, c, cfg))

ConstructSynapse ==
    /\ Len(connectors) < MaxConnectors
    /\ \E cfg \in JdbcConfigs :
         Constructed("AzureSynapseConnector.__init__",
                     [server |-> "syn.sql.azuresynapse.net",
                      database |-> "dw", config |-> cfg],
                     AzureSynapseConnector_init(spark_conf,
                         "syn.sql.azuresynapse.net", "dw", cfg))

ConstructSQL ==
    /\ Len(connectors) < MaxConnectors
    /\ \E cfg \in JdbcConfigs :
         Constructed("AzureSQLConnector.__init__",
                     [server |-> "srv.database.windows.net",
                      database |-> "db", config |-> cfg],
                     AzureSQLConnector_init(spark_conf,
                         "srv.database.windows.net", "db", cfg))

ConstructEventHub ==
    /\ Len(connectors) < MaxConnectors
    /\ \E cfg \in EventHubConfigs :
         Constructed("AzureEventHubConnector.__init__",
                     [namespace |-> "ns", eventhub_name |-> "events",
                      config |-> cfg],
                     AzureEventHubConnector_init(spark_conf, "ns", "events", cfg))

BlobRead ==
    \E i \in Instances("AzureBlobConnector"), p \in Paths, f \in Formats,
       o \in StorageOptions :
      Called("AzureBlobConnector.read", i, [path |-> p, format |-> f], o,
             AzureBlobConnector_read(connectors[i], spark_conf, p, f, o))

BlobWrite ==
    \E i \in Instances("AzureBlobConnector"), p \in Paths, f \in Formats,
       m \in Modes, o \in StorageOptions :
      Called("AzureBlobConnector.write", i,
             [path |-> p, format |-> f, mode |-> m], o,
             AzureBlobConnector_write(connectors[i], spark_conf, p, f, m, o))

DataLakeRead ==
    \E i \in Instances("AzureDataLakeGen2Connector"), p \in Paths,
       f \in Formats, o \in StorageOptions :
      Called("AzureDataLakeGen2Connector.read", i,
             [path |-> p, format |-> f], o,
             AzureDataLakeGen2Connector_read(connectors[i], spark_conf, p, f, o))

DataLakeWrite ==
    \E i \in Instances("AzureDataLakeGen2Connector"), p \in Paths,
       f \in Formats, m \in Modes, pb \in PartitionBys, o \in StorageOptions :
      Called("AzureDataLakeGen2Connector.write", i,
             [path |-> p, format |-> f, mode |-> m, partition_by |-> pb], o,
             AzureDataLakeGen2Connector_write(connectors[i], spark_conf, p, f,
                                              m, pb, o))

SynapseRead ==
    \E i \in Instances("AzureSynapseConnector"), t \in Tables, q \in Queries,
       o \in JdbcOptions :
      Called("AzureSynapseConnector.read", i, [table |-> t, query |-> q], o,
             AzureSynapseConnector_read(connectors[i], spark_conf, t, q, o))

SynapseWrite ==
    \E i \in Instances("AzureSynapseConnector"), t \in Tables \ {PyNone},
       m \in Modes, o \in JdbcOptions :
      Called("AzureSynapseConnector.write", i, [table |-> t, mode |-> m], o,
             AzureSynapseConnector_write(connectors[i], spark_conf, t, m, o))

SQLRead ==
    \E i \in Instances("AzureSQLConnector"), t \in Tables, q \in Queries,
       o \in JdbcOptions :
      Called("AzureSQLConnector.read", i, [table |-> t, query |-> q], o,
             AzureSQLConnector_read(connectors[i], spark_conf, t, q, o))

SQLWrite ==
    \E i \in Instances("AzureSQLConnector"), t \in Tables \ {PyNone},
       m \in Modes, o \in JdbcOptions :
      Called("AzureSQLConnector.write", i, [table |-> t, mode |-> m], o,
             AzureSQLConnector_write(connectors[i], spark_conf, t, m, o))

EventHubReadStream ==
    \E i \in Instances("AzureEventHubConnector"), sp \in StartingPositions,
       o \in EventHubOptions :
      Called("AzureEventHubConnector.read_stream", i,
             [starting_position |-> sp], o,
             AzureEventHubConnector_read_stream(connectors[i], spark_conf, sp, o))

EventHubWriteStream ==
    \E i \in Instances("AzureEventHubConnector"), cl \in CheckpointLocations,
       om \in OutputModes, tr \in Triggers :
      Called("AzureEventHubConnector.write_stream", i,
             [checkpoint_location |-> cl, output_mode |-> om, trigger |-> tr],
             NoneOpt,
             AzureEventHubConnector_write_stream(connectors[i], spark_conf,
                                                 cl, om, tr))

Next ==
    \/ ConstructBlob
    \/ ConstructDataLake
    \/ ConstructSynapse
    \/ ConstructSQL
    \/ ConstructEventHub
    \/ BlobRead
    \/ BlobWrite
    \/ DataLakeRead
    \/ DataLakeWrite
    \/ SynapseRead
    \/ SynapseWrite
    \/ SQLRead
    \/ SQLWrite
    \/ EventHubReadStream
    \/ EventHubWriteStream

Spec == Init /\ [][Next]_vars

-----------------------------------------------------------------------------
\* Properties

StorageClasses == {"AzureBlobConnector", "AzureDataLakeGen2Connector"}

JdbcReads == {"AzureSynapseConnector.read", "AzureSQLConnector.read"}

JdbcInits == {"AzureSynapseConnector.__init__", "AzureSQLConnector.__init__"}

StorageInits ==
    {"AzureBlobConnector.__init__", "AzureDataLakeGen2Connector.__init__"}

StorageCalls ==
    {"AzureBlobConnector.read", "AzureBlobConnector.write",
     "AzureDataLakeGen2Connector.read", "AzureDataLakeGen2Connector.write"}

EventHubCalls ==
    {"AzureEventHubConnector.read_stream", "AzureEventHubConnector.write_stream"}

\* the connector the last operation constructed or was called on
LastConnector == connectors[last.idx]

\* whether the caller's options map has the key k
OptionsHave(options, k) == options.tag = "Some" /\ k \in DOMAIN options.val

\* the host name of a storage class's endpoint
HostOf(cls) ==
    IF cls = "AzureBlobConnector" THEN "blob.core.windows.net"
    ELSE "dfs.core.windows.net"

\* the URL the spec gives for path p of a storage connector
ExpectedUrl(cls, container, account_name, p) ==
    <<IF cls = "AzureBlobConnector" THEN "wasbs://" ELSE "abfss://",
      container, "@", account_name, ".", HostOf(cls), "/", p>>

\* C1: a JDBC read given a non-empty table and a non-empty query together
\* ends in a ValueError and hands the engine no request, whatever the options.
C1_TableAndQueryRejected ==
    (last.kind = "call" /\ last.op \in JdbcReads
        /\ TruthyStr(last.args.table) /\ TruthyStr(last.args.query))
    => (last.exc = "ValueError" /\ last.request.api = "none")

C1_Witness ==
    /\ last.op = "AzureSQLConnector.read"
    /\ TruthyStr(last.args.table) /\ TruthyStr(last.args.query)
    /\ Truthy(last.options)
    /\ last.exc = "ValueError"

\* C2: a JDBC read given neither a table nor a query is rejected with a
\* ValueError before any request reaches the engine, and every read that
\* reaches the engine carries exactly one of dbtable and query, holding the
\* caller's non-empty value (reads whose options themselves set dbtable or
\* query are left aside).
C2_NeitherRejected ==
    (last.kind = "call" /\ last.op \in JdbcReads)
    => /\ (~TruthyStr(last.args.table) /\ ~TruthyStr(last.args.query))
          => (last.exc = "ValueError" /\ last.request.api = "none")
       /\ (last.request.api # "none"
             /\ ~OptionsHave(last.options, "dbtable")
             /\ ~OptionsHave(last.options, "query"))
          => LET o == last.request.options
             IN /\ ("dbtable" \in DOMAIN o) # ("query" \in DOMAIN o)
                /\ IF "dbtable" \in DOMAIN o
                   THEN TruthyStr(last.args.table) /\ o["dbtable"] = last.args.table
                   ELSE TruthyStr(last.args.query) /\ o["query"] = last.args.query

\* C3: constructing an AzureEventHubConnector with a config that lacks
\* connection_string (an empty config and None included) raises
\* ValueError('connection_string is required in config'), and every connector
\* that exists has the connection_string of its config.
C3_MissingConnectionStringIsValueError ==
    /\ (last.op = "AzureEventHubConnector.__init__"
          /\ ~OptionsHave(last.args.config, "connection_string"))
       => (last.exc = "ValueError"
           /\ last.msg = "connection_string is required in config")
    /\ \A i \in Instances("AzureEventHubConnector") :
         /\ "connection_string" \in DOMAIN connectors[i].config
         /\ connectors[i].connection_string
              = connectors[i].config["connection_string"]

\* C4 as stated: in every read_stream and write_stream call the
\* eventhubs.connectionString option handed to the engine is the
\* connection_string of the constructor's config, for all options.
C4_ConnectionStringAlwaysPassed ==
    (last.kind = "call" /\ last.op \in EventHubCalls)
    => /\ "eventhubs.connectionString" \in DOMAIN last.request.options
       /\ last.request.options["eventhubs.connectionString"]
            = LastConnector.config["connection_string"]

\* C4 amended: the eventhubs.connectionString option handed to the engine is
\* the connection_string of the constructor's config in every write_stream
\* call and in every read_stream call whose options do not have the key
\* eventhubs.connectionString; a read_stream call whose options have that key
\* hands the engine the caller's value instead.
C4_ConnectionStringUnlessOverridden ==
    (last.kind = "call" /\ last.op \in EventHubCalls)
    => /\ "eventhubs.connectionString" \in DOMAIN last.request.options
       /\ last.request.options["eventhubs.connectionString"]
            = IF OptionsHave(last.options, "eventhubs.connectionString")
              THEN last.options.val["eventhubs.connectionString"]
              ELSE LastConnector.config["connection_string"]

C4_Witness ==
    /\ last.op = "AzureEventHubConnector.read_stream"
    /\ last.args.starting_position = "latest"
    /\ Truthy(last.options)
    /\ ~OptionsHave(last.options, "eventhubs.connectionString")
    /\ last.request.options["eventhubs.connectionString"] = "Endpoint=sb://ns2"

\* C5: read(path) and write(df, path) of a storage connector address the same
\* URL for every format, mode, partition_by and options:
\* wasbs://<container>@<account_name>.blob.core.windows.net/<path> for
\* AzureBlobConnector, abfss://<container>@<account_name>.dfs.core.windows.net/<path>
\* for AzureDataLakeGen2Connector, container and account_name being the
\* constructor's arguments.  (Every read and every write of path p addresses
\* that one URL, so any read and any write of p address the same.)
C5_ReadWriteSameUrl ==
    /\ (last.op \in StorageInits /\ last.exc = NoExc)
       => /\ LastConnector.container = last.args.container
          /\ LastConnector.account_name = last.args.account_name
    /\ (last.op \in StorageCalls)
       => last.request.path = ExpectedUrl(LastConnector.cls,
                                  LastConnector.container,
                                  LastConnector.account_name, last.args.path)
    /\ \A i \in 1..Len(connectors) :
         connectors[i].cls \in StorageClasses
         => LET c == connectors[i]
                blob == c.cls = "AzureBlobConnector"
            IN \A p \in Paths :
                 LET url == ExpectedUrl(c.cls, c.container, c.account_name, p)
                 IN /\ \A f \in Formats, o \in StorageOptions :
                         url = (IF blob
                                THEN AzureBlobConnector_read(c, spark_conf, p, f, o)
                                ELSE AzureDataLakeGen2Connector_read(c,
                                         spark_conf, p, f, o)).request.path
                    /\ \A f \in Formats, m \in Modes, pb \in PartitionBys,
                          o \in StorageOptions :
                         url = (IF blob
                                THEN AzureBlobConnector_write(c, spark_conf, p,
                                         f, m, o)
                                ELSE AzureDataLakeGen2Connector_write(c,
                                         spark_conf, p, f, m, pb, o)).request.path

C5_Witness ==
    /\ last.op = "AzureBlobConnector.write"
    /\ last.args.format = "csv" /\ last.args.mode = "append"
    /\ Truthy(last.options)
    /\ last.request.path
         = <<"wasbs://", "c2", "@", "acctB", ".", "blob.core.windows.net", "/",
             "in/sales.parquet">>

\* C6: the credential key a storage connector sets at construction is scoped
\* to the endpoint its URLs address: with account_key it names the
\* connector's account_name and the host of its URLs; with sas_token it names
\* the constructor's container and that account_name.
C6_CredentialKeyMatchesEndpoint ==
    (last.op \in StorageInits /\ last.exc = NoExc)
    => LET cfg == OrEmptyDict(last.args.config)
           auth == DictGet(cfg, "auth_type", "account_key")
       IN /\ (auth = "account_key" /\ "account_key" \in DOMAIN cfg)
             => /\ last.keys # {}
                /\ \A k \in last.keys :
                     /\ HasPart(k, last.args.account_name)
                     /\ HasPart(k, HostOf(LastConnector.cls))
          /\ (auth = "sas_token" /\ "sas_token" \in DOMAIN cfg)
             => /\ last.keys # {}
                /\ \A k \in last.keys :
                     /\ HasPart(k, last.args.account_name)
                     /\ HasPart(k, last.args.container)

\* C7: constructing a JDBC connector with config None or with a config
\* lacking user/password succeeds, with user = "", password = "", the SQL
\* Server driver, and a jdbc_url jdbc:sqlserver://<server>:1433;database=<database>[...].
C7_ConfigOptional ==
    (last.op \in JdbcInits)
    => /\ last.exc = NoExc
       /\ LET c == LastConnector
              cfg == OrEmptyDict(last.args.config)
          IN /\ c.connection_properties["driver"]
                  = "com.microsoft.sqlserver.jdbc.SQLServerDriver"
             /\ "user" \notin DOMAIN cfg => c.connection_properties["user"] = ""
             /\ "password" \notin DOMAIN cfg
                  => c.connection_properties["password"] = ""
             /\ SubSeq(c.jdbc_url, 1, 4)
                  = <<"jdbc:sqlserver://", last.args.server, ":1433;database=",
                      last.args.database>>

\* C8: write_stream hands the engine a processing-time trigger whose
\* interval is the one the caller asked for, '10 seconds' with the default
\* arguments, and starts the query with the output mode, checkpointLocation
\* equal to checkpoint_location, and format eventhubs.
C8_TriggerInterval ==
    (last.op = "AzureEventHubConnector.write_stream")
    => /\ last.request.format = "eventhubs"
       /\ last.request.outputMode = last.args.output_mode
       /\ last.request.options["checkpointLocation"]
            = last.args.checkpoint_location
       /\ last.request.trigger.processingTime
            = IF last.args.trigger = default_trigger THEN "10 seconds"
              ELSE last.args.trigger

\* C9: every session configuration key a storage connector's construction
\* sets contains that connector's account_name, so a construction never sets
\* authentication settings that apply to another account.
C9_KeysScopedToAccount ==
    (last.op \in StorageInits)
    => \A k \in last.keys : HasPart(k, last.args.account_name)

\* C10: read, write, read_stream and write_stream leave the connector's
\* fields, every other connector, the session configuration and the caller's
\* options map as they were.
C10_CallsChangeNothing ==
    [][last'.kind = "call"
         => /\ connectors' = connectors
            /\ spark_conf' = spark_conf
            /\ last'.options_after = last'.options]_vars

C10_Witness ==
    /\ last.op = "AzureSQLConnector.read"
    /\ last.exc = NoExc
    /\ Truthy(last.options)
    /\ last.options_after = last.options
    /\ "fetchsize" \in DOMAIN last.request.options

====
